---------------------------- MODULE Spec2Model ----------------------------
(***************************************************************************)
(* The teacher competency flow of src/teacher_bot_new.py                   *)
(* (TeacherCompetencyFSM) run by the FSM engine of jb_manager_bot          *)
(* (AbstractFSM).  The flow (states, transitions, guards, handlers, the    *)
(* Variable Store) is translated from the source; the engine's run loop    *)
(* lives in the base class and is modelled from spec.md sections 4.1-4.3.  *)
(***************************************************************************)
EXTENDS Integers, Sequences, FiniteSets, TLC

VARIABLES
    state,               \* current state name (AbstractFSM.state)
    status,              \* self.status
    current_input,       \* self.current_input, the input buffer
    pc,                  \* where control is: idle, running, returned, raised
    error,               \* what escaped the run loop, "none" if nothing
    name,                \* TeacherCompetencyVariables.name
    subject,             \* .subject
    grade,               \* .grade
    home_screen_option,  \* .home_screen_option
    question_list,       \* .question_list
    total_num_question,  \* .total_num_question
    question_count,      \* .question_count
    current_question_id, \* .current_question_id
    user_input_param,    \* .user_input_param
    provider,            \* the generation provider of this run: conforming or arbitrary
    resumed_at,          \* the state the session was in when the current call began
    invoked,             \* handlers invoked during the current call, with the input they saw
    sent,                \* messages emitted during the current call
    shown,               \* questions shown since the quiz was last (re)started
    active,              \* the FSM instance whose fields the variables above are
    parked               \* the other FSM instance, as its last call left it

profile == <<name, subject, grade>>
quiz == <<question_list, question_count, current_question_id, user_input_param>>
store == <<name, subject, grade, home_screen_option, question_list,
           total_num_question, question_count, current_question_id, user_input_param>>
vars == <<state, status, current_input, pc, error, name, subject, grade,
          home_screen_option, question_list, total_num_question, question_count,
          current_question_id, user_input_param, provider, resumed_at, invoked,
          sent, shown, active, parked>>

(***************************************************************************)
(* Bounds.                                                                 *)
(***************************************************************************)
\* total_num_question ranges over 1..MaxN; the source's default, 5, is
\* among them.
MaxN == 5

\* Python's None in a string field.  No user input equals it.
None == "None"

\* An Optional field that holds a list or a number: unset, or set to x.
Unset == <<>>

Some(x) == <<x>>

(***************************************************************************)
(* Inputs the caller may supply.  Selection payloads are JSON text.        *)
(***************************************************************************)
PayloadCompetencies == "[{\"option_id\": \"competencies\"}]"
PayloadAssessment == "[{\"option_id\": \"assessment\"}]"
PayloadResources == "[{\"option_id\": \"resources\"}]"
PayloadHelp == "[{\"option_id\": \"help\"}]"
PayloadUnknown == "[{\"option_id\": \"quiz\"}]"
PayloadEmpty == "[]"
PayloadNoId == "[{}]"

\* The inputs offered at each pause: free text and a payload at the text
\* prompts, every payload shape and free text at the home screen, an option
\* key or free text at a question.
UserInputs(s) ==
    CASE s \in {"collect_name", "collect_subject", "collect_grade"} ->
            {"Asha", PayloadAssessment}
      [] s = "home_screen" ->
            {PayloadCompetencies, PayloadAssessment, PayloadResources,
             PayloadHelp, PayloadUnknown, PayloadEmpty, PayloadNoId, "Asha"}
      [] s = "question_answer_input" -> {"A", "I am not sure"}
      [] OTHER -> {"Asha"}

\* json.loads(self.current_input): the parsed value, or a JSONDecodeError for
\* text that is not JSON.
JsonLoads(text) ==
    CASE text = PayloadCompetencies -> [ok |-> TRUE, value |-> <<[option_id |-> "competencies"]>>]
      [] text = PayloadAssessment -> [ok |-> TRUE, value |-> <<[option_id |-> "assessment"]>>]
      [] text = PayloadResources -> [ok |-> TRUE, value |-> <<[option_id |-> "resources"]>>]
      [] text = PayloadHelp -> [ok |-> TRUE, value |-> <<[option_id |-> "help"]>>]
      [] text = PayloadUnknown -> [ok |-> TRUE, value |-> <<[option_id |-> "quiz"]>>]
      [] text = PayloadEmpty -> [ok |-> TRUE, value |-> <<>>]
      [] text = PayloadNoId -> [ok |-> TRUE, value |-> <<[other |-> ""]>>]
      [] OTHER -> [ok |-> FALSE, value |-> <<>>]

(***************************************************************************)
(* The flow definition.                                                    *)
(***************************************************************************)
states ==
    <<"zero", "language_selection", "welcome_message_display", "collect_name",
      "collect_name_logic", "collect_subject", "collect_subject_logic",
      "collect_grade", "collect_grade_logic", "confirmation", "show_question",
      "question_answer_input", "answer_input_logic", "waiting_message",
      "calculate_score", "thankyou_message", "home_screen", "home_screen_logic",
      "learn_competencies", "assessment", "resources_tips", "help_support", "end">>

Edge(s, d, c) == [source |-> s, dest |-> d, trigger |-> "next", conditions |-> c]

\* A plausible slip: collect_name wired past its logic state.
onboarding_transitions_skip_name_logic ==
    <<Edge("zero", "language_selection", ""),
      Edge("language_selection", "welcome_message_display", ""),
      Edge("welcome_message_display", "collect_name", ""),
      Edge("collect_name", "collect_subject", ""),
      Edge("collect_name_logic", "collect_subject", ""),
      Edge("collect_subject", "collect_subject_logic", ""),
      Edge("collect_subject_logic", "collect_grade", ""),
      Edge("collect_grade", "collect_grade_logic", ""),
      Edge("collect_grade_logic", "confirmation", ""),
      Edge("confirmation", "home_screen", "")>>

onboarding_transitions ==
    <<Edge("zero", "language_selection", ""),
      Edge("language_selection", "welcome_message_display", ""),
      Edge("welcome_message_display", "collect_name", ""),
      Edge("collect_name", "collect_name_logic", ""),
      Edge("collect_name_logic", "collect_subject", ""),
      Edge("collect_subject", "collect_subject_logic", ""),
      Edge("collect_subject_logic", "collect_grade", ""),
      Edge("collect_grade", "collect_grade_logic", ""),
      Edge("collect_grade_logic", "confirmation", ""),
      Edge("confirmation", "home_screen", "")>>

home_transitions ==
    <<Edge("home_screen", "home_screen_logic", ""),
      Edge("home_screen_logic", "learn_competencies", "is_learn_competencies_selected"),
      Edge("home_screen_logic", "assessment", "is_assessment_selected"),
      Edge("home_screen_logic", "resources_tips", "is_resources_tips_selected"),
      Edge("home_screen_logic", "help_support", "is_help_support_selected")>>
\* A plausible slip: the unconditional edge declared before the guarded one.
assessment_transitions_unconditional_first ==
    <<Edge("assessment", "show_question", ""),
      Edge("show_question", "question_answer_input", ""),
      Edge("question_answer_input", "answer_input_logic", ""),
      Edge("answer_input_logic", "waiting_message", ""),
      Edge("answer_input_logic", "show_question", "is_send_another_question"),
      Edge("waiting_message", "calculate_score", ""),
      Edge("calculate_score", "thankyou_message", "")>>

assessment_transitions ==
    <<Edge("assessment", "show_question", ""),
      Edge("show_question", "question_answer_input", ""),
      Edge("question_answer_input", "answer_input_logic", ""),
      Edge("answer_input_logic", "show_question", "is_send_another_question"),
      Edge("answer_input_logic", "waiting_message", ""),
      Edge("waiting_message", "calculate_score", ""),
      Edge("calculate_score", "thankyou_message", "")>>
\* A plausible slip: the edge from learn_competencies is commented out with
\* the other three.
return_transitions_without_competencies_edge ==
    <<Edge("thankyou_message", "home_screen", "")>>

\* A plausible slip: the competencies branch leads back to the start of
\* onboarding instead of the home screen.
return_transitions_to_collect_name ==
    <<Edge("learn_competencies", "collect_name", ""),
      Edge("thankyou_message", "home_screen", "")>>

\* A plausible slip: the commented-out edge from resources_tips back to the
\* home screen is left active.
return_transitions_with_resources_edge ==
    <<Edge("learn_competencies", "home_screen", ""),
      Edge("resources_tips", "home_screen", ""),
      Edge("thankyou_message", "home_screen", "")>>

return_transitions ==
    <<Edge("learn_competencies", "home_screen", ""),
      Edge("thankyou_message", "home_screen", "")>>

transitions ==
    onboarding_transitions \o home_transitions \o assessment_transitions
        \o return_transitions

\* A plausible slip: the waiting_message handler left out.
handlers_missing_waiting_message ==
    <<"language_selection", "welcome_message_display", "collect_name",
      "collect_name_logic", "collect_subject", "collect_subject_logic",
      "collect_grade", "collect_grade_logic", "confirmation", "home_screen",
      "home_screen_logic", "learn_competencies", "assessment",
      "preparing_question", "show_question", "question_answer_input",
      "answer_input_logic", "calculate_score",
      "thankyou_message", "resources_tips", "help_support", "end">>

\* The on_enter_<state> methods the class defines, in the order of definition.
\* "preparing_question" has a handler but is no state; "zero" is a state and
\* has no handler.
handlers ==
    <<"language_selection", "welcome_message_display", "collect_name",
      "collect_name_logic", "collect_subject", "collect_subject_logic",
      "collect_grade", "collect_grade_logic", "confirmation", "home_screen",
      "home_screen_logic", "learn_competencies", "assessment",
      "preparing_question", "show_question", "question_answer_input",
      "answer_input_logic", "waiting_message", "calculate_score",
      "thankyou_message", "resources_tips", "help_support", "end">>

\* The number of handlers dispatch by name finds for state s.
HandlerCount(s) == Cardinality({i \in DOMAIN handlers : handlers[i] = s})

(***************************************************************************)
(* Guards.                                                                 *)
(***************************************************************************)
is_learn_competencies_selected == home_screen_option = "competencies"

\* A plausible slip: the guard compares with the wrong option id.
is_assessment_selected_wrong_id == home_screen_option = "competencies"

is_assessment_selected == home_screen_option = "assessment"

is_resources_tips_selected == home_screen_option = "resources"

is_help_support_selected == home_screen_option = "help"

\* A plausible slip: the guard never turns false.
is_send_another_question_always == TRUE

is_send_another_question ==
    IF total_num_question = question_count THEN FALSE ELSE TRUE

\* The named condition of an edge; an edge without one is unconditional.
Condition(c) ==
    CASE c = "" -> TRUE
      [] c = "is_learn_competencies_selected" -> is_learn_competencies_selected
      [] c = "is_assessment_selected" -> is_assessment_selected
      [] c = "is_resources_tips_selected" -> is_resources_tips_selected
      [] c = "is_help_support_selected" -> is_help_support_selected
      [] c = "is_send_another_question" -> is_send_another_question

(***************************************************************************)
(* Transition selection (spec.md 4.2): the edges of the source for trigger *)
(* next, in declaration order; the first whose guard is true is taken.     *)
(***************************************************************************)
NoEdge == "<no edge>"
NoMatch == "<no match>"

EdgesFrom(s) == SelectSeq(transitions, LAMBDA t : t.source = s /\ t.trigger = "next")

TrueEdgesFrom(s) == SelectSeq(EdgesFrom(s), LAMBDA t : Condition(t.conditions))

NextState(s) ==
    IF EdgesFrom(s) = <<>> THEN NoEdge
    ELSE IF TrueEdgesFrom(s) = <<>> THEN NoMatch
    ELSE TrueEdgesFrom(s)[1].dest

PauseStatuses == {"WAIT_FOR_USER_INPUT", "WAIT_FOR_CALLBACK"}

(***************************************************************************)
(* Messages.                                                               *)
(***************************************************************************)
Text(body) == [type |-> "TEXT", body |-> body, options |-> <<>>]

Say(body) == sent' = Append(sent, Text(body))

(***************************************************************************)
(* The generation provider (Parser.parse_user_input).                      *)
(***************************************************************************)
QuestionOptions == <<[option_id |-> "A", option_text |-> "yes"],
                     [option_id |-> "B", option_text |-> "no"]>>

Question(id, k) ==
    [question_id |-> id, question |-> "q" \o ToString(k),
     options |-> QuestionOptions, answer |-> "A"]

UniquePool(n) == [i \in 1..n |-> Question(i, i)]

SameIdPool(n) == [i \in 1..n |-> Question(1, i)]

\* What the provider may return when asked for total_num_question questions:
\* a conforming provider returns that many questions with unique ids, an
\* arbitrary one may also return text without the "result" key, too few or
\* too many questions, or repeated ids.
QuestionResponses ==
    IF provider = "conforming"
    THEN {[ok |-> TRUE, result |-> UniquePool(total_num_question)]}
    ELSE {[ok |-> FALSE, result |-> <<>>],
          [ok |-> TRUE, result |-> UniquePool(total_num_question)],
          [ok |-> TRUE, result |-> UniquePool(total_num_question - 1)],
          [ok |-> TRUE, result |-> UniquePool(total_num_question + 1)],
          [ok |-> TRUE, result |-> SameIdPool(total_num_question)]}

\* A response to the other prompts: the expected key with a list of `items`
\* entries, or a value without the expected key.
ListResponses ==
    IF provider = "conforming"
    THEN {[ok |-> TRUE, items |-> 2]}
    ELSE {[ok |-> TRUE, items |-> 2], [ok |-> FALSE, items |-> 0]}

(***************************************************************************)
(* The run loop.                                                           *)
(***************************************************************************)
\* A second instance as TeacherCompetencyFSM(...) leaves it: at the initial
\* state, with a Variable Store of its own holding the defaults.
Constructed(n) ==
    [state |-> "zero", status |-> "WAIT_FOR_ME", current_input |-> None,
     pc |-> "idle", error |-> "none",
     variables |-> <<None, None, None, None, Unset, n, 0, Unset, <<>> >>,
     shown |-> 0]

\* A plausible slip: the store is created once, on the class, and every
\* instance holds that one object.
variables_of_shared(i) == 1

\* The Variable Store object that instance i holds: __init__ creates a new one
\* for each instance.
variables_of(i) == i

TypeOK ==
    /\ state \in {states[i] : i \in DOMAIN states}
    /\ status \in {"WAIT_FOR_ME", "MOVE_FORWARD"} \cup PauseStatuses
    /\ pc \in {"idle", "running", "returned", "raised"}
    /\ total_num_question \in 1..MaxN
    /\ question_count \in Nat
    /\ provider \in {"conforming", "arbitrary"}

Init ==
    /\ state = "zero"
    /\ status = "WAIT_FOR_ME"
    /\ current_input = None
    /\ pc = "idle"
    /\ error = "none"
    /\ name = None
    /\ subject = None
    /\ grade = None
    /\ home_screen_option = None
    /\ question_list = Unset
    /\ total_num_question \in 1..MaxN
    /\ question_count = 0
    /\ current_question_id = Unset
    /\ user_input_param = <<>>
    /\ provider \in {"conforming", "arbitrary"}
    /\ resumed_at = "zero"
    /\ invoked = <<>>
    /\ sent = <<>>
    /\ shown = 0
    /\ active = 1
    /\ parked = Constructed(total_num_question)

\* First entry: the caller starts the machine without input.
run ==
    /\ pc = "idle"
    /\ pc' = "running"
    /\ status' = "WAIT_FOR_ME"
    /\ resumed_at' = state
    /\ invoked' = <<>>
    /\ sent' = <<>>
    /\ UNCHANGED <<state, current_input, error, store, provider, shown,
                   active, parked>>

\* advance(session, X) on a paused session: X goes to the input buffer and
\* the loop resumes.
submit_input ==
    /\ pc = "returned"
    /\ \E x \in UserInputs(state) : current_input' = x
    /\ pc' = "running"
    /\ status' = "WAIT_FOR_ME"
    /\ resumed_at' = state
    /\ invoked' = <<>>
    /\ sent' = <<>>
    /\ UNCHANGED <<state, error, store, provider, shown, active, parked>>

\* The status asks for a pause: control returns to the caller.
pause ==
    /\ pc = "running"
    /\ status \in PauseStatuses
    /\ pc' = "returned"
    /\ UNCHANGED <<state, status, current_input, error, store, provider,
                   resumed_at, invoked, sent, shown, active, parked>>

\* No outgoing next transition: the loop ends and returns.
terminal ==
    /\ pc = "running"
    /\ status \notin PauseStatuses
    /\ NextState(state) = NoEdge
    /\ pc' = "returned"
    /\ UNCHANGED <<state, status, current_input, error, store, provider,
                   resumed_at, invoked, sent, shown, active, parked>>

\* Edges exist and no guard is true: a configuration error escapes.
no_valid_transition ==
    /\ pc = "running"
    /\ status \notin PauseStatuses
    /\ NextState(state) = NoMatch
    /\ pc' = "raised"
    /\ error' = "no_valid_transition"
    /\ UNCHANGED <<state, status, current_input, store, provider,
                   resumed_at, invoked, sent, shown, active, parked>>

\* The loop takes the next transition to s and dispatches to its handler.
Entered(s) ==
    /\ pc = "running"
    /\ status \notin PauseStatuses
    /\ NextState(state) = s
    /\ HandlerCount(s) = 1
    /\ state' = s
    /\ invoked' = Append(invoked, [state |-> s, input |-> current_input])
    /\ UNCHANGED <<current_input, provider, resumed_at, total_num_question,
                   active, parked>>

\* The handler returns normally.
Returns == UNCHANGED <<pc, error>>

\* An exception leaves the handler and the run loop.
Raises(e) == pc' = "raised" /\ error' = e

(***************************************************************************)
(* State handlers, onboarding.                                             *)
(***************************************************************************)
\* AbstractFSM._on_enter_select_language: emits the language dialog and
\* moves forward.
select_language ==
    /\ Say("language dialog")
    /\ status' = "MOVE_FORWARD"

on_enter_language_selection ==
    /\ Entered("language_selection")
    /\ select_language
    /\ Returns
    /\ UNCHANGED <<profile, home_screen_option, quiz, shown>>

on_enter_welcome_message_display ==
    /\ Entered("welcome_message_display")
    /\ Say("Welcome to the Teacher Competency Tool!")
    /\ status' = "MOVE_FORWARD"
    /\ Returns
    /\ UNCHANGED <<profile, home_screen_option, quiz, shown>>

on_enter_collect_name ==
    /\ Entered("collect_name")
    /\ Say("Please enter your name.")
    /\ status' = "WAIT_FOR_USER_INPUT"
    /\ Returns
    /\ UNCHANGED <<profile, home_screen_option, quiz, shown>>

\* A plausible slip: the logic state copies the prompt state's final status.
on_enter_collect_name_logic_waits ==
    /\ Entered("collect_name_logic")
    /\ name' = current_input
    /\ status' = "WAIT_FOR_USER_INPUT"
    /\ Returns
    /\ UNCHANGED <<subject, grade, home_screen_option, quiz, sent, shown>>

\* A plausible slip: the input is stored in the wrong field.
on_enter_collect_name_logic_wrong_field ==
    /\ Entered("collect_name_logic")
    /\ subject' = current_input
    /\ status' = "MOVE_FORWARD"
    /\ Returns
    /\ UNCHANGED <<name, grade, home_screen_option, quiz, sent, shown>>

on_enter_collect_name_logic ==
    /\ Entered("collect_name_logic")
    /\ name' = current_input
    /\ status' = "MOVE_FORWARD"
    /\ Returns
    /\ UNCHANGED <<subject, grade, home_screen_option, quiz, sent, shown>>

on_enter_collect_subject ==
    /\ Entered("collect_subject")
    /\ Say("What subject do you teach?")
    /\ status' = "WAIT_FOR_USER_INPUT"
    /\ Returns
    /\ UNCHANGED <<profile, home_screen_option, quiz, shown>>

on_enter_collect_subject_logic ==
    /\ Entered("collect_subject_logic")
    /\ subject' = current_input
    /\ status' = "MOVE_FORWARD"
    /\ Returns
    /\ UNCHANGED <<name, grade, home_screen_option, quiz, sent, shown>>

on_enter_collect_grade ==
    /\ Entered("collect_grade")
    /\ Say("Which grade do you teach?")
    /\ status' = "WAIT_FOR_USER_INPUT"
    /\ Returns
    /\ UNCHANGED <<profile, home_screen_option, quiz, shown>>
\* A plausible slip: the grade is read and never stored.
on_enter_collect_grade_logic_no_store ==
    /\ Entered("collect_grade_logic")
    /\ status' = "MOVE_FORWARD"
    /\ Returns
    /\ UNCHANGED <<profile, home_screen_option, quiz, sent, shown>>

on_enter_collect_grade_logic ==
    /\ Entered("collect_grade_logic")
    /\ grade' = current_input
    /\ status' = "MOVE_FORWARD"
    /\ Returns
    /\ UNCHANGED <<name, subject, home_screen_option, quiz, sent, shown>>

on_enter_confirmation ==
    /\ Entered("confirmation")
    /\ Say("Thank you! Let's begin!")
    /\ status' = "MOVE_FORWARD"
    /\ Returns
    /\ UNCHANGED <<profile, home_screen_option, quiz, shown>>

(***************************************************************************)
(* State handlers, home screen.                                            *)
(***************************************************************************)
HomeScreenOptions ==
    <<[option_id |-> "competencies", option_text |-> "Learn about competencies"],
      [option_id |-> "assessment", option_text |-> "Take an assessment"],
      [option_id |-> "resources", option_text |-> "Resources & Tips"],
      [option_id |-> "help", option_text |-> "Help/Support"]>>

on_enter_home_screen ==
    /\ Entered("home_screen")
    /\ sent' = Append(sent, [type |-> "BUTTON",
                             body |-> "What would you like to do today?",
                             options |-> HomeScreenOptions])
    /\ status' = "WAIT_FOR_USER_INPUT"
    /\ Returns
    /\ UNCHANGED <<profile, home_screen_option, quiz, shown>>

\* json.loads, [0] and ["option_id"] each raise on input of another shape;
\* nothing in the handler catches, and the option id is stored unchecked.
on_enter_home_screen_logic ==
    /\ Entered("home_screen_logic")
    /\ LET options_list == JsonLoads(current_input)
       IN  IF ~options_list.ok
           THEN /\ Raises("JSONDecodeError")
                /\ status' = "WAIT_FOR_ME"
                /\ UNCHANGED home_screen_option
           ELSE IF Len(options_list.value) = 0
           THEN /\ Raises("IndexError")
                /\ status' = "WAIT_FOR_ME"
                /\ UNCHANGED home_screen_option
           ELSE IF "option_id" \notin DOMAIN options_list.value[1]
           THEN /\ Raises("KeyError")
                /\ status' = "WAIT_FOR_ME"
                /\ UNCHANGED home_screen_option
           ELSE /\ home_screen_option' = options_list.value[1].option_id
                /\ status' = "MOVE_FORWARD"
                /\ Returns
    /\ UNCHANGED <<profile, quiz, sent, shown>>

\* result['competencies'] raises when the response lacks the key; one message
\* per competency otherwise.
on_enter_learn_competencies ==
    /\ Entered("learn_competencies")
    /\ \E result \in ListResponses :
          IF ~result.ok
          THEN /\ Raises("KeyError")
               /\ status' = "WAIT_FOR_ME"
               /\ UNCHANGED sent
          ELSE /\ sent' = sent \o [i \in 1..result.items |-> Text("competency " \o ToString(i))]
               /\ status' = "MOVE_FORWARD"
               /\ Returns
    /\ UNCHANGED <<profile, home_screen_option, quiz, shown>>

on_enter_resources_tips ==
    /\ Entered("resources_tips")
    /\ \E result \in ListResponses :
          IF ~result.ok
          THEN /\ Raises("KeyError")
               /\ status' = "WAIT_FOR_ME"
               /\ UNCHANGED sent
          ELSE /\ sent' = sent \o [i \in 1..result.items |-> Text("resource " \o ToString(i))]
               /\ status' = "MOVE_FORWARD"
               /\ Returns
    /\ UNCHANGED <<profile, home_screen_option, quiz, shown>>

on_enter_help_support ==
    /\ Entered("help_support")
    /\ Say("How can we assist you today? Please describe your issue.")
    /\ status' = "WAIT_FOR_USER_INPUT"
    /\ Returns
    /\ UNCHANGED <<profile, home_screen_option, quiz, shown>>

(***************************************************************************)
(* State handlers, assessment.                                             *)
(***************************************************************************)
\* A plausible slip: the reset forgets the question list.
ResetQuiz_keeps_list ==
    /\ question_count' = 0
    /\ user_input_param' = <<>>
    /\ current_question_id' = Unset
    /\ UNCHANGED question_list

\* The four assignments that reset the quiz variables.
ResetQuiz ==
    /\ question_count' = 0
    /\ user_input_param' = <<>>
    /\ question_list' = Unset
    /\ current_question_id' = Unset

on_enter_assessment ==
    /\ Entered("assessment")
    /\ ResetQuiz
    /\ Say("Ready for a quick quiz? Let's go!")
    /\ shown' = 0
    /\ status' = "MOVE_FORWARD"
    /\ Returns
    /\ UNCHANGED <<profile, home_screen_option>>

\* The list message of a question: 'Question <num>: ' + question, one option
\* per key of its options.
QuestionMessage(num, q) ==
    [type |-> "OPTION_LIST",
     body |-> "Question " \o ToString(num) \o ": " \o q.question,
     options |-> q.options]

\* on_enter_show_question up to the point where the message is built, for the
\* provider response r (read only when the list is unset): the exception
\* raised if any, the question list as left in the store, and the question
\* selected.  Python indexes from 0, sequences here from 1.
ShowQuestionOutcome(r) ==
    LET generate == question_list = Unset
        list == IF generate THEN r.result ELSE question_list[1]
        n == question_count
    IN  IF generate /\ ~r.ok
        THEN [error |-> "KeyError", question_list |-> question_list]
        ELSE IF generate /\ Len(list) = 0
        THEN [error |-> "IndexError", question_list |-> Some(list)]
        ELSE IF n # 0 /\ n + 1 > Len(list)
        THEN [error |-> "IndexError", question_list |-> Some(list)]
        ELSE IF ~generate /\ n = 0
        THEN [error |-> "UnboundLocalError", question_list |-> Some(list)]
        ELSE [error |-> "none", question_list |-> Some(list),
              num |-> n + 1,
              question |-> IF n # 0 THEN list[n + 1] ELSE list[1]]
\* A plausible slip: the handler omits its final status assignment and leaves
\* the status it set on entry.
on_enter_show_question_keeps_callback ==
    /\ Entered("show_question")
    /\ \E r \in IF question_list = Unset THEN QuestionResponses
                ELSE {[ok |-> TRUE, result |-> <<>>]} :
          LET out == ShowQuestionOutcome(r)
          IN  /\ question_list' = out.question_list
              /\ status' = "WAIT_FOR_CALLBACK"
              /\ IF out.error # "none"
                 THEN /\ Raises(out.error)
                      /\ UNCHANGED <<sent, current_question_id, shown>>
                 ELSE /\ sent' = Append(sent, QuestionMessage(out.num, out.question))
                      /\ current_question_id' = Some(out.question.question_id)
                      /\ shown' = shown + 1
                      /\ Returns
    /\ UNCHANGED <<profile, home_screen_option, question_count, user_input_param>>

on_enter_show_question ==
    /\ Entered("show_question")
    /\ \E r \in IF question_list = Unset THEN QuestionResponses
                ELSE {[ok |-> TRUE, result |-> <<>>]} :
          LET out == ShowQuestionOutcome(r)
          IN  /\ question_list' = out.question_list
              /\ IF out.error # "none"
                 THEN /\ Raises(out.error)
                      /\ status' = "WAIT_FOR_CALLBACK"
                      /\ UNCHANGED <<sent, current_question_id, shown>>
                 ELSE /\ sent' = Append(sent, QuestionMessage(out.num, out.question))
                      /\ current_question_id' = Some(out.question.question_id)
                      /\ shown' = shown + 1
                      /\ status' = "MOVE_FORWARD"
                      /\ Returns
    /\ UNCHANGED <<profile, home_screen_option, question_count, user_input_param>>

\* A plausible slip: the counter is not incremented.
on_enter_question_answer_input_no_count ==
    /\ Entered("question_answer_input")
    /\ status' = "WAIT_FOR_USER_INPUT"
    /\ Returns
    /\ UNCHANGED <<profile, home_screen_option, quiz, sent, shown>>
\* A plausible slip: the state moves forward instead of pausing for the answer.
on_enter_question_answer_input_advances ==
    /\ Entered("question_answer_input")
    /\ question_count' = question_count + 1
    /\ status' = "MOVE_FORWARD"
    /\ Returns
    /\ UNCHANGED <<profile, home_screen_option, question_list,
                   current_question_id, user_input_param, sent, shown>>

on_enter_question_answer_input ==
    /\ Entered("question_answer_input")
    /\ question_count' = question_count + 1
    /\ status' = "WAIT_FOR_USER_INPUT"
    /\ Returns
    /\ UNCHANGED <<profile, home_screen_option, question_list,
                   current_question_id, user_input_param, sent, shown>>
\* A plausible slip: the list is not filtered by the current id.
CurrentQuesParam_no_filter ==
    IF question_list = Unset \/ current_question_id = Unset THEN <<>>
    ELSE question_list[1]

\* The questions of the list whose id is the current one, in list order.
CurrentQuesParam ==
    IF question_list = Unset \/ current_question_id = Unset THEN <<>>
    ELSE SelectSeq(question_list[1],
                   LAMBDA q : q.question_id = current_question_id[1])
\* A plausible slip: the answer is built and never appended to the log.
on_enter_answer_input_logic_no_append ==
    /\ Entered("answer_input_logic")
    /\ IF question_list = Unset
       THEN /\ Raises("TypeError")
            /\ status' = "WAIT_FOR_ME"
       ELSE IF CurrentQuesParam = <<>>
       THEN /\ Raises("IndexError")
            /\ status' = "WAIT_FOR_ME"
       ELSE /\ status' = "MOVE_FORWARD"
            /\ Returns
    /\ UNCHANGED <<profile, home_screen_option, quiz, sent, shown>>

on_enter_answer_input_logic ==
    /\ Entered("answer_input_logic")
    /\ IF question_list = Unset
       THEN /\ Raises("TypeError")
            /\ status' = "WAIT_FOR_ME"
            /\ UNCHANGED user_input_param
       ELSE IF CurrentQuesParam = <<>>
       THEN /\ Raises("IndexError")
            /\ status' = "WAIT_FOR_ME"
            /\ UNCHANGED user_input_param
       ELSE /\ user_input_param' =
                   Append(user_input_param,
                          [question_id |-> current_question_id[1],
                           question |-> CurrentQuesParam[1].question,
                           options |-> CurrentQuesParam[1].options,
                           answer |-> CurrentQuesParam[1].answer,
                           selected_option |-> current_input])
            /\ status' = "MOVE_FORWARD"
            /\ Returns
    /\ UNCHANGED <<profile, home_screen_option, question_list, question_count,
                   current_question_id, sent, shown>>
\* A plausible slip: the handler omits its final status assignment.
on_enter_waiting_message_no_final_status ==
    /\ Entered("waiting_message")
    /\ Say("Please wait while we are calculating your score")
    /\ status' = "WAIT_FOR_ME"
    /\ Returns
    /\ UNCHANGED <<profile, home_screen_option, quiz, shown>>

on_enter_waiting_message ==
    /\ Entered("waiting_message")
    /\ Say("Please wait while we are calculating your score")
    /\ status' = "MOVE_FORWARD"
    /\ Returns
    /\ UNCHANGED <<profile, home_screen_option, quiz, shown>>

\* result['result'] raises when the response lacks the key.
on_enter_calculate_score ==
    /\ Entered("calculate_score")
    /\ \E result \in ListResponses :
          IF ~result.ok
          THEN /\ Raises("KeyError")
               /\ status' = "WAIT_FOR_ME"
               /\ UNCHANGED sent
          ELSE /\ Say("Your score")
               /\ status' = "MOVE_FORWARD"
               /\ Returns
    /\ UNCHANGED <<profile, home_screen_option, quiz, shown>>

on_enter_thankyou_message ==
    /\ Entered("thankyou_message")
    /\ ResetQuiz
    /\ Say("Thank you for attempting MX Quiz!")
    /\ status' = "MOVE_FORWARD"
    /\ Returns
    /\ UNCHANGED <<profile, home_screen_option, shown>>

(***************************************************************************)
(* Specifications.                                                         *)
(***************************************************************************)
\* One step of the run loop.
EngineStep ==
    \/ on_enter_language_selection
    \/ on_enter_welcome_message_display
    \/ on_enter_collect_name
    \/ on_enter_collect_name_logic
    \/ on_enter_collect_subject
    \/ on_enter_collect_subject_logic
    \/ on_enter_collect_grade
    \/ on_enter_collect_grade_logic
    \/ on_enter_confirmation
    \/ on_enter_home_screen
    \/ on_enter_home_screen_logic
    \/ on_enter_learn_competencies
    \/ on_enter_resources_tips
    \/ on_enter_help_support
    \/ on_enter_assessment
    \/ on_enter_show_question
    \/ on_enter_question_answer_input
    \/ on_enter_answer_input_logic
    \/ on_enter_waiting_message
    \/ on_enter_calculate_score
    \/ on_enter_thankyou_message
    \/ pause
    \/ terminal
    \/ no_valid_transition

\* One call by the hosting process.
CallerStep == run \/ submit_input

Next == EngineStep \/ CallerStep

Spec == Init /\ [][Next]_vars

\* The run loop runs to its next pause once called, and the user answers
\* every prompt.
FairSpec == Spec /\ WF_vars(EngineStep) /\ WF_vars(CallerStep)

(***************************************************************************)
(* Two sessions.                                                           *)
(***************************************************************************)
\* The number of questions of the two-session runs.
PairN == 1

\* The hosting process turns from the instance it has been advancing to the
\* other one, between calls.  The fields of an instance are found through
\* self, and the store through self.variables: the store fields change hands
\* only when the two instances hold different store objects.
switch_session ==
    /\ pc # "running"
    /\ active' = 3 - active
    /\ parked' = [state |-> state, status |-> status,
                  current_input |-> current_input, pc |-> pc, error |-> error,
                  variables |-> store, shown |-> shown]
    /\ state' = parked.state
    /\ status' = parked.status
    /\ current_input' = parked.current_input
    /\ pc' = parked.pc
    /\ error' = parked.error
    /\ shown' = parked.shown
    /\ IF variables_of(1) = variables_of(2)
       THEN UNCHANGED store
       ELSE /\ name' = parked.variables[1]
            /\ subject' = parked.variables[2]
            /\ grade' = parked.variables[3]
            /\ home_screen_option' = parked.variables[4]
            /\ question_list' = parked.variables[5]
            /\ total_num_question' = parked.variables[6]
            /\ question_count' = parked.variables[7]
            /\ current_question_id' = parked.variables[8]
            /\ user_input_param' = parked.variables[9]
    /\ resumed_at' = parked.state
    /\ invoked' = <<>>
    /\ sent' = <<>>
    /\ UNCHANGED provider

PairInit == Init /\ total_num_question = PairN /\ provider = "conforming"

PairNext == Next \/ switch_session

\* Two instances for distinct users, advanced call by call in any order.
PairSpec == PairInit /\ [][PairNext]_vars

(***************************************************************************)
(* Properties.                                                             *)
(***************************************************************************)
\* The states invoked during the current call, in order.
InvokedStates == [i \in DOMAIN invoked |-> invoked[i].state]

\* How often handler s was invoked during the current call.
TimesInvoked(s) == Cardinality({i \in DOMAIN invoked : invoked[i].state = s})

\* How often a message with this body was emitted during the current call.
TimesSent(body) == Cardinality({i \in DOMAIN sent : sent[i].body = body})

\* The states whose handlers finish with WAIT_FOR_USER_INPUT.
AwaitingStates ==
    {"collect_name", "collect_subject", "collect_grade", "home_screen",
     "question_answer_input", "help_support"}

\* C1: advance() hands control back only after a handler that finished with
\* a pause status (in this flow, only at one of the six prompting states), or
\* at a state with no outgoing next transition (resources_tips, help_support);
\* it never returns after a handler that finished with MOVE_FORWARD at a
\* state that has a successor.
C1_ReturnOnlyAtPauseOrTerminal ==
    pc = "returned" =>
        \/ status \in PauseStatuses /\ state \in AwaitingStates
        \/ NextState(state) = NoEdge /\ state \in {"resources_tips", "help_support"}

\* A call returned after a chain of five handlers, four of them advancing.
C1_Witness ==
    /\ pc = "returned"
    /\ InvokedStates = <<"answer_input_logic", "waiting_message",
                         "calculate_score", "thankyou_message", "home_screen">>

\* The successor the transition table gives each prompting state.
LogicStateOf ==
    [collect_name |-> "collect_name_logic",
     collect_subject |-> "collect_subject_logic",
     collect_grade |-> "collect_grade_logic",
     home_screen |-> "home_screen_logic",
     question_answer_input |-> "answer_input_logic"]

C3_CollectNameScenario ==
    resumed_at = "collect_name" =>
        /\ pc # "raised"
        /\ subject = None /\ grade = None
        /\ pc = "returned" =>
              /\ name = current_input
              /\ state = "collect_subject"
              /\ status = "WAIT_FOR_USER_INPUT"
              /\ InvokedStates = <<"collect_name_logic", "collect_subject">>
              /\ TimesSent("What subject do you teach?") = 1

C3_Witness ==
    /\ resumed_at = "collect_name"
    /\ pc = "returned"
    /\ name = "Asha"
    /\ state = "collect_subject"

\* The branch the flow gives each offered option.
BranchOf ==
    [competencies |-> "learn_competencies",
     assessment |-> "assessment",
     resources |-> "resources_tips",
     help |-> "help_support"]

\* The option id of a well-shaped selection payload, None for other input.
SelectedOptionId(text) ==
    LET parsed == JsonLoads(text)
    IN  IF parsed.ok /\ Len(parsed.value) > 0 /\ "option_id" \in DOMAIN parsed.value[1]
        THEN parsed.value[1].option_id
        ELSE None

\* C4: when home_screen_logic runs on a payload whose option id v is one of
\* the four offered, it stores v, the transition then selected is the branch
\* of v, and that branch's handler is the next one invoked.
C4_SelectedBranchTaken ==
    LET v == SelectedOptionId(current_input)
    IN  (resumed_at = "home_screen" /\ invoked # <<>> /\ v \in DOMAIN BranchOf) =>
            /\ invoked[1].state = "home_screen_logic"
            /\ home_screen_option = v
            /\ state = "home_screen_logic" => pc = "running" /\ NextState(state) = BranchOf[v]
            /\ Len(invoked) >= 2 => invoked[2].state = BranchOf[v]
            /\ v = "assessment" =>
                  \A i \in DOMAIN invoked :
                      invoked[i].state \notin {"learn_competencies", "resources_tips", "help_support"}

C4_Witness ==
    /\ resumed_at = "home_screen"
    /\ current_input = PayloadAssessment
    /\ home_screen_option = "assessment"
    /\ Len(invoked) >= 2
    /\ invoked[2].state = "assessment"

\* C5: whenever the run loop asks for the next state from a source with
\* guarded edges, one edge is selected; from home_screen_logic exactly one
\* guard is true.
C5_ExactlyOneEdgeSelected ==
    (pc = "running" /\ status \notin PauseStatuses
        /\ state \in {"home_screen_logic", "answer_input_logic"}) =>
        /\ NextState(state) \in {states[i] : i \in DOMAIN states}
        /\ state = "home_screen_logic" => Len(TrueEdgesFrom(state)) = 1

\* C6: question_count never exceeds total_num_question, and the repetition
\* guard is false exactly when the count has reached it.
C6_CounterInvariant ==
    /\ question_count <= total_num_question
    /\ ~is_send_another_question <=> question_count = total_num_question

C6_Witness ==
    /\ state = "answer_input_logic"
    /\ pc = "running"
    /\ total_num_question = MaxN
    /\ question_count = total_num_question
    /\ ~is_send_another_question

\* C7: with a conforming provider and the user answering every prompt, a
\* session that enters assessment reaches waiting_message, with exactly
\* total_num_question questions shown and counted.
C7_QuizTerminates ==
    (provider = "conforming" /\ state = "assessment")
        ~> (state = "waiting_message" /\ shown = total_num_question
               /\ question_count = total_num_question)

C7_Witness ==
    /\ provider = "conforming"
    /\ state = "waiting_message"
    /\ total_num_question = MaxN
    /\ shown = total_num_question
    /\ Len(user_input_param) = total_num_question

\* The states whose handlers call the generation provider.
ContentStates == {"learn_competencies", "show_question", "calculate_score", "resources_tips"}

\* C8: no error escapes the run loop from a content-producing state.
C8_ProviderErrorsAbsorbed ==
    ~(pc = "raised" /\ state \in ContentStates)

\* C9: the call that delivers the home-screen input never ends in an error
\* at home_screen_logic, neither an exception of the handler nor the lack of
\* a valid transition.
C9_BadSelectionReprompted ==
    ~(pc = "raised" /\ state = "home_screen_logic")

\* The states reachable from s through the transition table, s included.
RECURSIVE ReachableFrom(_)
ReachableFrom(S) ==
    LET more == S \cup {transitions[i].dest : i \in {j \in DOMAIN transitions :
                                                        transitions[j].source \in S}}
    IN  IF more = S THEN S ELSE ReachableFrom(more)

ReachableStates == ReachableFrom({"zero"})

\* C10 as stated: every state reachable from zero, zero included, and so
\* every state the session is ever in, has exactly one handler.
C10_EveryReachableStateHandled ==
    /\ \A s \in ReachableStates : HandlerCount(s) = 1
    /\ HandlerCount(state) = 1

\* C10 amended: every state reachable from zero other than zero itself has
\* exactly one handler; zero has none and no transition enters it, so every
\* state the run loop enters is dispatched to exactly one handler.
C10_EveryEnteredStateHandled ==
    /\ \A s \in ReachableStates \ {"zero"} : HandlerCount(s) = 1
    /\ HandlerCount("zero") = 0
    /\ \A i \in DOMAIN transitions : transitions[i].dest # "zero"
    /\ state # "zero" => HandlerCount(state) = 1
    /\ state \in ReachableStates

C10_Witness ==
    /\ state = "thankyou_message"
    /\ HandlerCount(state) = 1
    /\ "help_support" \in ReachableStates

\* The statuses a handler may finish with.
FinalStatuses == {"MOVE_FORWARD", "WAIT_FOR_USER_INPUT", "WAIT_FOR_CALLBACK"}

RECURSIVE ReachedWithoutPause(_, _)
ReachedWithoutPause(S, seen) ==
    LET step == {transitions[i].dest : i \in {j \in DOMAIN transitions :
                                                transitions[j].source \in S}}
        more == seen \cup step
    IN  IF more = seen THEN seen
        ELSE ReachedWithoutPause(step \ AwaitingStates, more)

\* C12: no handler is invoked twice within one call; a call invokes at most
\* five handlers; and every cycle of the transition graph passes through a
\* state that pauses for input (no state that does not pause can be reached
\* again from itself through states that do not pause).
C12_NoHandlerTwicePerCall ==
    /\ \A i, j \in DOMAIN invoked : invoked[i].state = invoked[j].state => i = j
    /\ Len(invoked) <= 5
    /\ \A s \in ReachableStates \ AwaitingStates :
          s \notin ReachedWithoutPause({s}, {})

\* The quiz loop went round once within a call and stopped at its pause.
C12_Witness ==
    /\ pc = "returned"
    /\ resumed_at = "question_answer_input"
    /\ state = "question_answer_input"
    /\ InvokedStates = <<"answer_input_logic", "show_question", "question_answer_input">>
    /\ question_count = 2

\* The states without outgoing next transition that the flow reaches.
TerminalStates == {"resources_tips", "help_support"}

\* C13: at resources_tips and help_support the run loop finds no outgoing
\* transition: once the handler has finished, the only step of the loop is
\* the return to the caller, no configuration error is raised, and neither
\* that call nor any later one changes the current state or the store.
C13_TerminalStateEndsLoop ==
    /\ [](state \in TerminalStates =>
            /\ error # "no_valid_transition"
            /\ pc = "raised" => (state = "resources_tips" /\ error = "KeyError")
            /\ pc = "running" => (status \in PauseStatuses \/ NextState(state) = NoEdge))
    /\ [][(state \in TerminalStates) => (state' = state /\ UNCHANGED store)]_vars
    /\ [][(state \in TerminalStates /\ pc = "running") => pc' = "returned"]_vars

\* A later call on a session that ended at resources_tips came back at once.
C13_Witness ==
    /\ state = "resources_tips"
    /\ resumed_at = "resources_tips"
    /\ pc = "returned"
    /\ invoked = <<>>

\* C14: after answer_input_logic the transition taken is the guarded edge
\* to show_question while questions remain (question_count below
\* total_num_question) and the unconditional edge to waiting_message only
\* when none remain; waiting_message and calculate_score are entered only
\* with every question asked and answered.
C14_GuardedEdgeBeforeFallback ==
    /\ (state = "answer_input_logic" /\ pc = "running") =>
          NextState(state) = IF question_count < total_num_question
                             THEN "show_question" ELSE "waiting_message"
    /\ \A i \in DOMAIN invoked :
          (invoked[i].state = "answer_input_logic" /\ i < Len(invoked)) =>
              /\ invoked[i + 1].state \in {"show_question", "waiting_message"}
              /\ i + 1 = Len(invoked) =>
                    (invoked[i + 1].state = "waiting_message" <=>
                        question_count = total_num_question)
    /\ state \in {"waiting_message", "calculate_score"} =>
          /\ question_count = total_num_question
          /\ Len(user_input_param) = total_num_question

\* The fallback edge was taken after the guarded edge had been taken for
\* every earlier question.
C14_Witness ==
    /\ state = "waiting_message"
    /\ total_num_question = MaxN
    /\ shown = MaxN
    /\ InvokedStates = <<"answer_input_logic", "waiting_message">>

(***************************************************************************)
(* C16.  Reset of the quiz variables.                                      *)
(***************************************************************************)
ResettingStates == {"assessment", "thankyou_message"}

\* C16: right after the assessment handler and right after the
\* thankyou_message handler, question_count is 0, user_input_param is empty,
\* question_list and current_question_id are unset; the step that runs either
\* handler leaves total_num_question and the profile fields unchanged.
C16_QuizVariablesReset ==
    /\ [](state \in ResettingStates =>
            /\ question_count = 0
            /\ user_input_param = <<>>
            /\ question_list = Unset
            /\ current_question_id = Unset)
    /\ [][(state' \in ResettingStates /\ state' # state) =>
            UNCHANGED <<profile, total_num_question>>]_vars

\* A full quiz of MaxN questions has been answered and thankyou_message has
\* just run on a session with a filled profile.
C16_Witness ==
    /\ state = "thankyou_message"
    /\ shown = MaxN
    /\ total_num_question = MaxN
    /\ name = "Asha"
    /\ question_count = 0
    /\ question_list = Unset

(***************************************************************************)
(* C17.  The two question-selection paths of show_question.                *)
(***************************************************************************)
\* The run loop is about to enter show_question.
EnteringShowQuestion ==
    /\ pc = "running"
    /\ status \notin PauseStatuses
    /\ NextState(state) = "show_question"

FirstQuestionPath == question_list = Unset /\ question_count = 0

LaterQuestionPath ==
    /\ question_list # Unset
    /\ 1 <= question_count
    /\ question_count < total_num_question

\* C17: whenever show_question is about to be entered, either question_list is
\* unset and question_count = 0, or question_list is set and
\* 1 <= question_count < total_num_question, never both and never neither; the
\* handler never fails for want of a selected question, and when it has
\* emitted its message the message is that of the item at index
\* question_count and current_question_id is that item's id.
C17_ExactlyOneSelectionPath ==
    /\ EnteringShowQuestion =>
          /\ FirstQuestionPath \/ LaterQuestionPath
          /\ ~(FirstQuestionPath /\ LaterQuestionPath)
    /\ error # "UnboundLocalError"
    /\ (state = "show_question" /\ pc = "running") =>
          /\ question_list # Unset
          /\ question_count + 1 <= Len(question_list[1])
          /\ sent # <<>>
          /\ sent[Len(sent)] =
                QuestionMessage(question_count + 1,
                                question_list[1][question_count + 1])
          /\ current_question_id =
                Some(question_list[1][question_count + 1].question_id)

\* The third question has just been shown by the second path.
C17_Witness ==
    /\ state = "show_question"
    /\ pc = "running"
    /\ status = "MOVE_FORWARD"
    /\ question_count = 2
    /\ shown = 3
    /\ sent = <<QuestionMessage(3, question_list[1][3])>>

(***************************************************************************)
(* C18.  The answer log.                                                   *)
(***************************************************************************)
\* C18: after every run of answer_input_logic the log user_input_param has
\* question_count entries, the run having added exactly one entry to the end
\* of it; the log has total_num_question entries when calculate_score is
\* entered; show_question, question_answer_input, waiting_message and
\* calculate_score leave the log as it is.
C18_LogGrowsByOnePerAnswer ==
    /\ [](state = "answer_input_logic" =>
            /\ pc # "raised"
            /\ Len(user_input_param) = question_count)
    /\ [](state \in {"waiting_message", "calculate_score"} =>
            Len(user_input_param) = total_num_question)
    /\ [][(state' = "answer_input_logic" /\ state' # state) =>
            /\ Len(user_input_param') = Len(user_input_param) + 1
            /\ SubSeq(user_input_param', 1, Len(user_input_param)) =
                  user_input_param]_vars
    /\ [][(state' \in {"show_question", "question_answer_input",
                       "waiting_message", "calculate_score"}
           /\ state' # state) => UNCHANGED user_input_param]_vars

\* The third answer of a longer quiz has just been logged.
C18_Witness ==
    /\ state = "answer_input_logic"
    /\ pc = "running"
    /\ question_count = 3
    /\ Len(user_input_param) = 3
    /\ total_num_question = MaxN

(***************************************************************************)
(* C19.  What an answer is recorded against.                               *)
(***************************************************************************)
UniqueIds(list) ==
    \A i, j \in DOMAIN list : list[i].question_id = list[j].question_id => i = j

\* C19: when answer_input_logic has run, on a resumption from
\* question_answer_input, current_question_id is the id of the question at
\* index question_count - 1 of question_list (the one shown last), and the
\* entry just appended to user_input_param carries that id and the input of
\* this resumption as selected_option; when the ids of the list are unique it
\* also carries that question's text, options and answer.
C19_AnswerRecordedAgainstShownQuestion ==
    state = "answer_input_logic" =>
        /\ resumed_at = "question_answer_input"
        /\ invoked[1] = [state |-> "answer_input_logic", input |-> current_input]
        /\ question_list # Unset
        /\ question_count \in DOMAIN question_list[1]
        /\ user_input_param # <<>>
        /\ LET q == question_list[1][question_count]
               entry == user_input_param[Len(user_input_param)]
           IN  /\ current_question_id = Some(q.question_id)
               /\ entry.question_id = q.question_id
               /\ entry.selected_option = current_input
               /\ UniqueIds(question_list[1]) =>
                     /\ entry.question = q.question
                     /\ entry.options = q.options
                     /\ entry.answer = q.answer

\* The answer to the second question of a pool with unique ids has just been
\* recorded.
C19_Witness ==
    /\ state = "answer_input_logic"
    /\ question_count = 2
    /\ UniqueIds(question_list[1])
    /\ current_input = "I am not sure"
    /\ user_input_param[2] =
          [question_id |-> 2, question |-> "q2", options |-> QuestionOptions,
           answer |-> "A", selected_option |-> "I am not sure"]

(***************************************************************************)
(* C20.  The callback status.                                              *)
(***************************************************************************)
\* C20: no call returns to the caller with status WAIT_FOR_CALLBACK; a call
\* that returns after a handler paused returns with WAIT_FOR_USER_INPUT.  The status set
\* at the start of show_question outlives the handler only when the handler
\* raises.
C20_NeverReturnsAwaitingCallback ==
    /\ pc = "returned" => status # "WAIT_FOR_CALLBACK"
    /\ (pc = "returned" /\ invoked # <<>> /\ state \in AwaitingStates) =>
          status = "WAIT_FOR_USER_INPUT"
    /\ status = "WAIT_FOR_CALLBACK" =>
          /\ pc = "raised"
          /\ state = "show_question"
          /\ error \in {"KeyError", "IndexError"}

\* A call in which show_question generated and showed the first question has
\* returned at the pause of question_answer_input.
C20_Witness ==
    /\ pc = "returned"
    /\ state = "question_answer_input"
    /\ status = "WAIT_FOR_USER_INPUT"
    /\ \E i \in DOMAIN invoked : invoked[i].state = "show_question"
    /\ question_list # Unset
    /\ question_count = 1

(***************************************************************************)
(* C15.  Independence of sessions.                                         *)
(***************************************************************************)
\* What the instance that is not being advanced holds: its current state, its
\* status, and the fields of the store it refers to.
OtherInstance ==
    [state |-> parked.state, status |-> parked.status,
     variables |-> IF variables_of(1) = variables_of(2) THEN store
                   ELSE parked.variables]

\* C15: with two instances, every step of a call on one instance leaves the
\* other instance's current state, status and store fields unchanged, and an
\* instance taken up again has the state, status and store fields its own
\* last call left.
C15_SessionsIndependent ==
    /\ [][(active' = active) => OtherInstance' = OtherInstance]_vars
    /\ [][(active' # active) =>
            /\ <<state', status', store'>> =
                  <<parked.state, parked.status, parked.variables>>
            /\ <<parked'.state, parked'.status, parked'.variables>> =
                  <<state, status, store>>]_vars

\* The second instance is in its quiz while the first, advanced before and
\* after it, waits at its home screen with its own profile.
C15_Witness ==
    /\ active = 2
    /\ state = "question_answer_input"
    /\ pc = "returned"
    /\ question_count = 1
    /\ parked.state = "home_screen"
    /\ parked.status = "WAIT_FOR_USER_INPUT"
    /\ parked.variables[1] = PayloadAssessment
    /\ name = "Asha"
    /\ parked.variables[7] = 0

(***************************************************************************)
(* C21.  The profile after onboarding.                                     *)
(***************************************************************************)
OnboardingStates ==
    {"language_selection", "welcome_message_display", "collect_name",
     "collect_name_logic", "collect_subject", "collect_subject_logic",
     "collect_grade", "collect_grade_logic", "confirmation"}

\* The states a session can be in once it has entered confirmation.
FromConfirmation == ReachableFrom({"confirmation"})

\* C21: from the moment the session is at confirmation, every step leaves
\* name, subject and grade unchanged and leaves the session at confirmation
\* or beyond, never entering an onboarding state; the transition table has no
\* edge leading back into onboarding.
C21_ProfileFrozenAfterOnboarding ==
    /\ [](FromConfirmation \cap OnboardingStates = {"confirmation"})
    /\ [][(state \in FromConfirmation) =>
            /\ UNCHANGED profile
            /\ state' \in FromConfirmation
            /\ state' \in OnboardingStates => state' = state]_vars

\* After onboarding the user has chosen the assessment and answered its first
\* question; the profile is the one given during onboarding.
C21_Witness ==
    /\ state = "answer_input_logic"
    /\ shown = 1
    /\ home_screen_option = "assessment"
    /\ user_input_param # <<>>
    /\ name = PayloadAssessment
    /\ subject = "Asha"
    /\ grade = PayloadAssessment
    /\ \E i \in DOMAIN invoked : invoked[i].input = "I am not sure"

(***************************************************************************)
(* C22.  The order of onboarding.                                          *)
(***************************************************************************)
\* The profile fields that are set.
FieldsSet == {f \in {"name", "subject", "grade"} :
                 CASE f = "name" -> name # None
                   [] f = "subject" -> subject # None
                   [] f = "grade" -> grade # None}

\* The fields set when the session is at state s.
FieldsSetAt(s) ==
    CASE s \in {"zero", "language_selection", "welcome_message_display",
                "collect_name"} -> {}
      [] s \in {"collect_name_logic", "collect_subject"} -> {"name"}
      [] s \in {"collect_subject_logic", "collect_grade"} -> {"name", "subject"}
      [] OTHER -> {"name", "subject", "grade"}

\* C22: the fields are set in the order name, subject, grade, one per
\* resumption: at each state exactly the fields collected so far are set, so
\* all three are set at confirmation and at every state after it, home_screen
\* included; each collect_*_logic handler runs first in a call resumed at its
\* prompt state and stores the input of that call.
C22_OnboardingOrder ==
    /\ FieldsSet = FieldsSetAt(state)
    /\ state \in FromConfirmation => FieldsSet = {"name", "subject", "grade"}
    /\ state \in {"collect_name_logic", "collect_subject_logic",
                  "collect_grade_logic"} =>
          /\ invoked = <<[state |-> state, input |-> current_input]>>
          /\ current_input \in UserInputs(resumed_at)
    /\ state = "collect_name_logic" =>
          resumed_at = "collect_name" /\ name = current_input
    /\ state = "collect_subject_logic" =>
          resumed_at = "collect_subject" /\ subject = current_input
    /\ state = "collect_grade_logic" =>
          resumed_at = "collect_grade" /\ grade = current_input

\* The first pause at the home screen, the three fields having been given by
\* three inputs that were not all the same.
C22_Witness ==
    /\ state = "home_screen"
    /\ pc = "returned"
    /\ resumed_at = "collect_grade"
    /\ InvokedStates = <<"collect_grade_logic", "confirmation", "home_screen">>
    /\ name = "Asha"
    /\ subject = PayloadAssessment
    /\ grade = "Asha"
    /\ home_screen_option = None

(***************************************************************************)
(* C23.  Return to the home screen.                                        *)
(***************************************************************************)
\* The call has returned at the home screen's prompt.
PausedAtHomeScreen ==
    /\ state = "home_screen"
    /\ pc = "returned"
    /\ status = "WAIT_FOR_USER_INPUT"

\* home_screen_logic has just stored the selection `option`.
Selected(option) ==
    /\ state = "home_screen_logic"
    /\ pc = "running"
    /\ home_screen_option = option

\* C23: with a conforming provider and the user answering every prompt, a
\* session in which 'competencies' has just been selected, and one in which
\* 'assessment' has just been selected, pauses again at home_screen with
\* status WAIT_FOR_USER_INPUT.
C23_ReturnsToHomeScreen ==
    /\ (provider = "conforming" /\ Selected("competencies")) ~> PausedAtHomeScreen
    /\ (provider = "conforming" /\ Selected("assessment")) ~> PausedAtHomeScreen

\* The call that recorded the last answer of a quiz of MaxN questions has
\* gone on through the score and the thanks and has paused at the home screen.
C23_Witness ==
    /\ provider = "conforming"
    /\ PausedAtHomeScreen
    /\ total_num_question = MaxN
    /\ shown = MaxN
    /\ InvokedStates = <<"answer_input_logic", "waiting_message",
                         "calculate_score", "thankyou_message", "home_screen">>

=============================================================================
